---- MODULE Spec2Model ----
(***************************************************************************)
(* A model of textacy's vsm module: Vectorizer / GroupVectorizer and the   *)
(* module-level filtering and weighting functions (src/textacy/vsm.py).    *)
(*                                                                         *)
(* A Python dict is a TLA+ function from its keys to its values; None and  *)
(* a dict share one variable, so both are wrapped in a record (None, Dict).*)
(* A CSR matrix is a record of its shape and its rows, each row a function *)
(* from the column ids that have a stored entry to the stored value.       *)
(***************************************************************************)
EXTENDS Integers, Sequences, FiniteSets, TLC

VARIABLES
    cfg,               \* constructor arguments kept on the instance
    vocabulary_terms,  \* self.vocabulary_terms
    vocabulary_grps,   \* self.vocabulary_grps (GroupVectorizer)
    id_to_term_,       \* self.id_to_term_, the dict behind id_to_term
    id_to_grp_,        \* self.id_to_grp_ (GroupVectorizer)
    call               \* the call in progress or just returned, and its outcome

vars == <<cfg, vocabulary_terms, vocabulary_grps, id_to_term_, id_to_grp_, call>>

----------------------------------------------------------------------------
(* Bounds of the model *)

MaxDocs == 2     \* documents in one input stream
MaxTokens == 3   \* terms in one input stream, over all its documents

Terms == {"a", "b"}
Groups == {"g1", "g2"}

SeqsUpTo(S, n) == UNION {[1..k -> S] : k \in 0..n}

RECURSIVE TotalLen(_)
TotalLen(docs) == IF docs = <<>> THEN 0 ELSE Len(Head(docs)) + TotalLen(Tail(docs))

\* the input streams: tokenized_docs, each document a sequence of terms
Docs == SeqsUpTo(Terms, MaxTokens)
DocSeqs == {docs \in SeqsUpTo(Docs, MaxDocs) : TotalLen(docs) <= MaxTokens}

----------------------------------------------------------------------------
(* Python values *)

EmptyMap == [t \in {} |-> 0]
\* None, a plain dict, and a collections.defaultdict whose default_factory is
\* its own __len__ (a lookup of a missing key inserts it with the next id)
None == [is_none |-> TRUE, map |-> EmptyMap, default_factory |-> FALSE]
Dict(m) == [is_none |-> FALSE, map |-> m, default_factory |-> FALSE]
DefaultDict(m) == [is_none |-> FALSE, map |-> m, default_factory |-> TRUE]

\* An int or a float argument (min_df, max_df, min_ic): the value num/den.
\* Denominators are powers of two, so the float arithmetic on them is exact.
PyInt(k) == [is_int |-> TRUE, num |-> k, den |-> 1]
PyFloat(n, d) == [is_int |-> FALSE, num |-> n, den |-> d]

\* Python's `x == k` and `x < 0` on numbers compare values, not types.
NumEq(x, k) == x.num = k * x.den
NumNeg(x) == x.num < 0

\* `x if isinstance(x, int) else int(x * n_docs)`
DocCount(x, n_docs) == IF x.is_int THEN x.num ELSE (x.num * n_docs) \div x.den

\* Optional int (max_n_terms): <<>> is None, <<k>> is k.
NoInt == <<>>
SomeInt(k) == <<k>>

Range(f) == {f[x] : x \in DOMAIN f}
Len0(m) == Cardinality(DOMAIN m)

----------------------------------------------------------------------------
(* Sparse matrices *)

Matrix(n_rows, n_cols, rows) == [n_rows |-> n_rows, n_cols |-> n_cols, rows |-> rows]
NoMatrix == Matrix(0, 0, <<>>)

\* value at (row i, column j), rows and columns numbered from 0
Entry(m, i, j) == IF j \in DOMAIN m.rows[i + 1] THEN m.rows[i + 1][j] ELSE 0

RECURSIVE SumNat(_, _)
SumNat(f, S) ==
    IF S = {} THEN 0
    ELSE LET x == CHOOSE y \in S : TRUE IN f[x] + SumNat(f, S \ {x})

\* doc_term_matrix.nnz: the number of stored entries
Nnz(m) == SumNat([i \in 1..m.n_rows |-> Cardinality(DOMAIN m.rows[i])], 1..m.n_rows)

----------------------------------------------------------------------------
(* Term counting *)

Ok == "ok"
ErrNotBuilt == "ValueError: vocabulary hasn't been built"
ErrEmptyVocabulary == "ValueError: vocabulary is empty"
ErrNegative == "ValueError: max_df, min_df, and max_n_terms may not be negative"
ErrBounds == "ValueError: max_df corresponds to fewer documents than min_df"
ErrNoTermsDf == "ValueError: After filtering, no terms remain (df)"
ErrNoTermsIc == "ValueError: After filtering, no terms remain (ic)"
ErrNoNonZero == "ValueError: term-document matrix must have at least 1 non-zero entry"
ErrMinIc == "ValueError: min_ic must be a float in [0.0, 1.0]"
ErrTypeNone == "TypeError: 'NoneType' object"
ErrAttrNone == "AttributeError: 'NoneType' object has no attribute 'items'"

\* Incr with the count set instead of incremented
IncrOverwrite(term_counter, idx) ==
    IF idx \in DOMAIN term_counter
    THEN [term_counter EXCEPT ![idx] = 1]
    ELSE term_counter @@ (idx :> 1)

\* term_counter[term_idx] += 1 on a defaultdict(int)
Incr(term_counter, idx) ==
    IF idx \in DOMAIN term_counter
    THEN [term_counter EXCEPT ![idx] = @ + 1]
    ELSE term_counter @@ (idx :> 1)

\* Lookup with the id of a new key taken after the insertion
LookupOffByOne(vocabulary, key) ==
    IF key \in DOMAIN vocabulary.map
    THEN [found |-> TRUE, vocabulary |-> vocabulary, idx |-> vocabulary.map[key]]
    ELSE IF vocabulary.default_factory
    THEN [found |-> TRUE,
          vocabulary |-> [vocabulary EXCEPT !.map = @ @@ (key :> Len0(@) + 1)],
          idx |-> Len0(vocabulary.map) + 1]
    ELSE [found |-> FALSE, vocabulary |-> vocabulary, idx |-> 0]

\* vocabulary[key]: the id of a known key; on a defaultdict a missing key is
\* inserted with id len(vocabulary), on a plain dict it raises KeyError.
Lookup(vocabulary, key) ==
    IF key \in DOMAIN vocabulary.map
    THEN [found |-> TRUE, vocabulary |-> vocabulary, idx |-> vocabulary.map[key]]
    ELSE IF vocabulary.default_factory
    THEN [found |-> TRUE,
          vocabulary |-> [vocabulary EXCEPT !.map = @ @@ (key :> Len0(@))],
          idx |-> Len0(vocabulary.map)]
    ELSE [found |-> FALSE, vocabulary |-> vocabulary, idx |-> 0]

\* the inner loop `for term in terms` of _count_terms
RECURSIVE CountDoc(_, _, _)
CountDoc(terms, vocabulary, term_counter) ==
    IF terms = <<>>
    THEN [vocabulary |-> vocabulary, term_counter |-> term_counter]
    ELSE LET l == Lookup(vocabulary, Head(terms))
         IN  IF l.found
             THEN CountDoc(Tail(terms), l.vocabulary, Incr(term_counter, l.idx))
             ELSE CountDoc(Tail(terms), vocabulary, term_counter)

\* the outer loop `for terms in tokenized_docs` of Vectorizer._count_terms
RECURSIVE CountDocs(_, _, _)
CountDocs(tokenized_docs, vocabulary, rows) ==
    IF tokenized_docs = <<>>
    THEN [vocabulary |-> vocabulary, rows |-> rows]
    ELSE LET c == CountDoc(Head(tokenized_docs), vocabulary, EmptyMap)
         IN  CountDocs(Tail(tokenized_docs), c.vocabulary, Append(rows, c.term_counter))

\* Undefault without the copy: the defaultdict is returned as it is
UndefaultKept(vocabulary, fixed_vocab) == vocabulary

\* `vocabulary = dict(vocabulary)` when the vocabulary was built by this call
Undefault(vocabulary, fixed_vocab) ==
    IF fixed_vocab = FALSE THEN Dict(vocabulary.map) ELSE vocabulary

\* CountTerms with the open vocabulary started from self.vocabulary_terms
\* instead of an empty defaultdict
CountTermsCarryOver(self_vocabulary_terms, tokenized_docs, fixed_vocab) ==
    LET vocabulary == IF fixed_vocab = FALSE THEN DefaultDict(self_vocabulary_terms.map)
                      ELSE self_vocabulary_terms
        c == CountDocs(tokenized_docs, vocabulary, <<>>)
    IN  IF vocabulary.is_none
        THEN [status |-> ErrTypeNone, matrix |-> NoMatrix, vocabulary |-> vocabulary]
        ELSE [status |-> Ok,
              matrix |-> Matrix(Len(c.rows), Len0(c.vocabulary.map), c.rows),
              vocabulary |-> Undefault(c.vocabulary, fixed_vocab)]

\* Vectorizer._count_terms(tokenized_docs, fixed_vocab). With fixed_vocab the
\* counted vocabulary is the object self.vocabulary_terms itself.
CountTerms(self_vocabulary_terms, tokenized_docs, fixed_vocab) ==
    LET vocabulary == IF fixed_vocab = FALSE THEN DefaultDict(EmptyMap)
                      ELSE self_vocabulary_terms
        c == CountDocs(tokenized_docs, vocabulary, <<>>)
    IN  IF vocabulary.is_none
        THEN [status |-> ErrTypeNone, matrix |-> NoMatrix, vocabulary |-> vocabulary]
        ELSE [status |-> Ok,
              matrix |-> Matrix(Len(c.rows), Len0(c.vocabulary.map), c.rows),
              vocabulary |-> Undefault(c.vocabulary, fixed_vocab)]

----------------------------------------------------------------------------
(* Module-level functions: frequencies and filters *)

Cols(m) == 0..(m.n_cols - 1)

\* np.bincount(doc_term_matrix.indices, minlength=n_terms): for every column,
\* the number of rows that have a stored entry in it
BinCount(m) == [j \in Cols(m) |-> Cardinality({i \in 1..m.n_rows : j \in DOMAIN m.rows[i]})]

\* get_doc_freqs(doc_term_matrix, normalized=False)
GetDocFreqs(m) ==
    IF Nnz(m) = 0
    THEN [status |-> ErrNoNonZero, dfs |-> EmptyMap]
    ELSE [status |-> Ok, dfs |-> BinCount(m)]

\* get_term_freqs(doc_term_matrix, normalized=False): the column sums
GetTermFreqs(m) ==
    IF Nnz(m) = 0
    THEN [status |-> ErrNoNonZero, tfs |-> EmptyMap]
    ELSE [status |-> Ok,
          tfs |-> [j \in Cols(m) |->
                     SumNat([i \in 1..m.n_rows |-> Entry(m, i - 1, j)], 1..m.n_rows)]]

\* `key[mask].argsort()[::-1][:k]`: k columns of the mask with the largest
\* keys. argsort is not a stable sort, so which of several columns with equal
\* keys comes first is not determined: every choice is a possible outcome.
TopK(mask, key, k) ==
    {S \in SUBSET mask :
        /\ Cardinality(S) = k
        /\ \A x \in S : \A y \in mask \ S : key[x] >= key[y]}

\* np.cumsum(mask) - 1
NewIndices(mask, n_terms) ==
    [old \in 0..(n_terms - 1) |-> Cardinality({j \in mask : j <= old}) - 1]

\* Reindex with the kept terms left under their old ids
ReindexKeepOld(term_to_id, mask, n_terms) ==
    [term \in {t \in DOMAIN term_to_id : term_to_id[t] \in mask} |-> term_to_id[term]]

\* {term: new_indices[old_index] for term, old_index in term_to_id.items()
\*  if mask[old_index]}
Reindex(term_to_id, mask, n_terms) ==
    LET new_indices == NewIndices(mask, n_terms)
    IN  [term \in {t \in DOMAIN term_to_id : term_to_id[t] \in mask} |->
            new_indices[term_to_id[term]]]

\* SliceCols with every column left in the matrix
SliceColsAll(m, mask) == m

\* doc_term_matrix[:, kept_indices], kept_indices = np.where(mask)[0]
SliceCols(m, mask) ==
    LET new_indices == NewIndices(mask, m.n_cols)
        old_of(p) == CHOOSE j \in mask : new_indices[j] = p
    IN  Matrix(m.n_rows, Cardinality(mask),
               [i \in 1..m.n_rows |->
                  [p \in {new_indices[j] : j \in (DOMAIN m.rows[i]) \cap mask} |->
                      m.rows[i][old_of(p)]]])

Outcome(status, m, term_to_id) == [status |-> status, matrix |-> m, vocabulary |-> term_to_id]

FilterResult(m, term_to_id, mask, err) ==
    IF mask = {}
    THEN Outcome(err, NoMatrix, EmptyMap)
    ELSE Outcome(Ok, SliceCols(m, mask), Reindex(term_to_id, mask, m.n_cols))

\* filter_terms_by_df(doc_term_matrix, term_to_id, max_df, min_df, max_n_terms):
\* the set of its possible outcomes
FilterTermsByDf(m, term_to_id, max_df, min_df, max_n_terms) ==
    IF NumEq(max_df, 1) /\ NumEq(min_df, 1) /\ max_n_terms = NoInt
    THEN {Outcome(Ok, m, term_to_id)}
    ELSE IF NumNeg(max_df) \/ NumNeg(min_df) \/ (max_n_terms # NoInt /\ max_n_terms[1] < 0)
    THEN {Outcome(ErrNegative, NoMatrix, EmptyMap)}
    ELSE
    LET n_docs == m.n_rows
        n_terms == m.n_cols
        max_doc_count == DocCount(max_df, n_docs)
        min_doc_count == DocCount(min_df, n_docs)
        d == GetDocFreqs(m)
        dfs == d.dfs
        mask0 == Cols(m)
        mask1 == IF max_doc_count < n_docs
                 THEN {j \in mask0 : dfs[j] <= max_doc_count} ELSE mask0
        mask2 == IF min_doc_count > 1
                 THEN {j \in mask1 : dfs[j] >= min_doc_count} ELSE mask1
    IN  IF max_doc_count < min_doc_count
        THEN {Outcome(ErrBounds, NoMatrix, EmptyMap)}
        ELSE IF d.status # Ok
        THEN {Outcome(d.status, NoMatrix, EmptyMap)}
        ELSE IF max_n_terms # NoInt /\ Cardinality(mask2) > max_n_terms[1]
        THEN {FilterResult(m, term_to_id, mask, ErrNoTermsDf) :
                 mask \in TopK(mask2, GetTermFreqs(m).tfs, max_n_terms[1])}
        ELSE {FilterResult(m, term_to_id, mask2, ErrNoTermsDf)}

Abs(x) == IF x < 0 THEN -x ELSE x

\* `ics >= min_ic` for one column, where ics is the binary entropy of
\* p = df / n_docs (0 where p is 0 or 1). The entropy is 1 exactly at p = 1/2
\* and is at least 1/2 exactly for p in [0.11003, 0.88997]; min_ic is one of
\* 0.0, 0.5 and 1.0 in this model.
IcAtLeast(df, n_docs, min_ic) ==
    IF min_ic.num <= 0 THEN TRUE
    ELSE IF min_ic.num = min_ic.den THEN 2 * df = n_docs
    ELSE 11003 * n_docs <= 100000 * df /\ 100000 * df <= 88997 * n_docs

\* the order of the information content values: the entropy grows as p gets
\* closer to 1/2
IcRank(dfs, n_docs) == [j \in DOMAIN dfs |-> 0 - Abs(2 * dfs[j] - n_docs)]

\* filter_terms_by_ic(doc_term_matrix, term_to_id, min_ic, max_n_terms)
FilterTermsByIc(m, term_to_id, min_ic, max_n_terms) ==
    IF NumEq(min_ic, 0) /\ max_n_terms = NoInt
    THEN {Outcome(Ok, m, term_to_id)}
    ELSE IF NumNeg(min_ic) \/ min_ic.num > min_ic.den
    THEN {Outcome(ErrMinIc, NoMatrix, EmptyMap)}
    ELSE IF max_n_terms # NoInt /\ max_n_terms[1] < 0
    THEN {Outcome(ErrNegative, NoMatrix, EmptyMap)}
    ELSE
    LET d == GetDocFreqs(m)      \* get_information_content calls get_doc_freqs
        dfs == d.dfs
        mask0 == Cols(m)
        mask1 == IF min_ic.num > 0
                 THEN {j \in mask0 : IcAtLeast(dfs[j], m.n_rows, min_ic)} ELSE mask0
    IN  IF d.status # Ok
        THEN {Outcome(d.status, NoMatrix, EmptyMap)}
        ELSE IF max_n_terms # NoInt /\ Cardinality(mask1) > max_n_terms[1]
        THEN {FilterResult(m, term_to_id, mask, ErrNoTermsIc) :
                 mask \in TopK(mask1, IcRank(dfs, m.n_rows), max_n_terms[1])}
        ELSE {FilterResult(m, term_to_id, mask1, ErrNoTermsIc)}

----------------------------------------------------------------------------
(* Weighting *)

\* A stored value after weighting, kept as the steps applied to the count:
\* tf is the count (1 after the binary fill), sub says that tf was replaced
\* by 1 + ln(tf), idf is <<>> or the pair <<n_docs, df>> whose idf factor
\* ln(n_docs / df) + 1 multiplies the value, and l2 says that the value was
\* divided by the Euclidean norm of its row. steps lists the steps in the
\* order in which they were applied.
Cell(tf) == [tf |-> tf, sub |-> FALSE, idf |-> <<>>, l2 |-> FALSE, steps |-> <<>>]

\* the matrix with stored value v at (i, j) replaced by cells[i][j]
WithData(m, cells) == Matrix(m.n_rows, m.n_cols, cells)

\* the counts as stored values
Counts(m) ==
    WithData(m, [i \in 1..m.n_rows |-> [j \in DOMAIN m.rows[i] |-> Cell(m.rows[i][j])]])

\* doc_term_matrix.data.fill(1)
Fill1(m) ==
    WithData(m, [i \in 1..m.n_rows |-> [j \in DOMAIN m.rows[i] |-> Cell(1)]])

\* np.log(data, data); data += 1
Log1p(m) ==
    WithData(m, [i \in 1..m.n_rows |->
                    [j \in DOMAIN m.rows[i] |-> [m.rows[i][j] EXCEPT !.sub = TRUE, !.steps = Append(@, "sublinear_tf")]]])

\* normalize_mat(doc_term_matrix, norm='l2', axis=1)
NormalizeMat(m) ==
    WithData(m, [i \in 1..m.n_rows |->
                    [j \in DOMAIN m.rows[i] |-> [m.rows[i][j] EXCEPT !.l2 = TRUE, !.steps = Append(@, "normalize")]]])

\* apply_idf_weighting(doc_term_matrix, smooth_idf)
ApplyIdfWeighting(m, smooth_idf) ==
    LET d == GetDocFreqs(m)
        n_docs == IF smooth_idf = TRUE THEN m.n_rows + 1 ELSE m.n_rows
        dfs == [j \in DOMAIN d.dfs |-> IF smooth_idf = TRUE THEN d.dfs[j] + 1 ELSE d.dfs[j]]
    IN  IF d.status # Ok
        THEN [status |-> d.status, matrix |-> NoMatrix]
        ELSE [status |-> Ok,
              matrix |-> WithData(m, [i \in 1..m.n_rows |->
                            [j \in DOMAIN m.rows[i] |->
                                [m.rows[i][j] EXCEPT !.idf = <<n_docs, dfs[j]>>,
                                                     !.steps = Append(@, "idf")]]])]

\* ReweightValues with the rows normalized before the other steps
ReweightValuesNormalizeFirst(c, doc_term_matrix) ==
    LET m0 == IF c.normalize = TRUE THEN NormalizeMat(Counts(doc_term_matrix))
              ELSE Counts(doc_term_matrix)
        m1 == IF c.sublinear_tf = TRUE THEN Log1p(m0) ELSE m0
    IN  IF c.weighting = "binary"
        THEN [status |-> Ok,
              matrix |-> IF c.normalize = TRUE THEN NormalizeMat(Fill1(doc_term_matrix))
                         ELSE Fill1(doc_term_matrix)]
        ELSE IF c.weighting = "tfidf"
        THEN ApplyIdfWeighting(m1, c.smooth_idf)
        ELSE [status |-> Ok, matrix |-> m1]

\* ReweightValues with the idf step taken only when the sublinear one is not
ReweightValuesElif(c, doc_term_matrix) ==
    LET m0 == Counts(doc_term_matrix)
        w == IF c.weighting = "binary"
             THEN [status |-> Ok, matrix |-> Fill1(doc_term_matrix)]
             ELSE IF c.sublinear_tf = TRUE
             THEN [status |-> Ok, matrix |-> Log1p(m0)]
             ELSE IF c.weighting = "tfidf"
             THEN ApplyIdfWeighting(m0, c.smooth_idf)
             ELSE [status |-> Ok, matrix |-> m0]
    IN  IF w.status # Ok THEN w
        ELSE IF c.normalize = TRUE
        THEN [status |-> Ok, matrix |-> NormalizeMat(w.matrix)]
        ELSE w

\* Vectorizer._reweight_values(doc_term_matrix)
ReweightValues(c, doc_term_matrix) ==
    LET m0 == Counts(doc_term_matrix)
        m1 == IF c.sublinear_tf = TRUE THEN Log1p(m0) ELSE m0
        w == IF c.weighting = "binary"
             THEN [status |-> Ok, matrix |-> Fill1(doc_term_matrix)]
             ELSE IF c.weighting = "tfidf"
             THEN ApplyIdfWeighting(m1, c.smooth_idf)
             ELSE [status |-> Ok, matrix |-> m1]
    IN  IF w.status # Ok THEN w
        ELSE IF c.normalize = TRUE
        THEN [status |-> Ok, matrix |-> NormalizeMat(w.matrix)]
        ELSE w

----------------------------------------------------------------------------
(* Construction *)

ErrInitDf == "ValueError: min_df and max_df must be positive numbers or None"
ErrInitIc == "ValueError: min_ic must be a float in the interval [0.0, 1.0]"
ErrInitMaxNTerms == "ValueError: max_n_terms must be a positive integer or None"
ErrDuplicateTerm == "ValueError: Terms in vocabulary must be unique"
ErrDuplicateId == "ValueError: Term ids in vocabulary must be unique"
ErrGap == "ValueError: Term ids in vocabulary must be compact"
ErrEmptyArgument == "ValueError: vocabulary must not be empty."

\* A vocabulary argument: absent (None), a mapping or an iterable of strings.
Absent == [kind |-> "none", map |-> EmptyMap, seq |-> <<>>]
Mapping(m) == [kind |-> "mapping", map |-> m, seq |-> <<>>]
Iterable(q) == [kind |-> "iterable", map |-> EmptyMap, seq |-> q]

\* the strings of the model in Python's sort order
StrOrder == <<"a", "b", "g1", "g2">>

RECURSIVE Repeat(_, _)
Repeat(x, n) == IF n = 0 THEN <<>> ELSE <<x>> \o Repeat(x, n - 1)

Occurrences(q, x) == Cardinality({i \in 1..Len(q) : q[i] = x})

\* sorted(vocabulary)
RECURSIVE SortedFrom(_, _)
SortedFrom(q, k) ==
    IF k > Len(StrOrder) THEN <<>>
    ELSE Repeat(StrOrder[k], Occurrences(q, StrOrder[k])) \o SortedFrom(q, k + 1)

Sorted(q) == SortedFrom(q, 1)

\* the loop `for i, term in enumerate(sorted(vocabulary))` with
\* `vocab.setdefault(term, i) != i` raising; i counts from 0
RECURSIVE EnumerateTerms(_, _, _)
EnumerateTerms(sorted, i, vocab) ==
    IF i > Len(sorted) THEN [status |-> Ok, vocab |-> vocab]
    ELSE IF sorted[i] \in DOMAIN vocab
    THEN [status |-> ErrDuplicateTerm, vocab |-> vocab]
    ELSE EnumerateTerms(sorted, i + 1, vocab @@ (sorted[i] :> (i - 1)))

\* ValidateVocabulary without the test for a missing id
ValidateVocabularyNoGap(vocabulary) ==
    LET Fail(e) == [status |-> e, vocabulary |-> None, is_fixed |-> FALSE]
        Check(m) == IF Len0(m) = 0 THEN Fail(ErrEmptyArgument)
                    ELSE [status |-> Ok, vocabulary |-> Dict(m), is_fixed |-> TRUE]
        e == EnumerateTerms(Sorted(vocabulary.seq), 1, EmptyMap)
        ids == Range(vocabulary.map)
    IN  IF vocabulary.kind = "none"
        THEN [status |-> Ok, vocabulary |-> None, is_fixed |-> FALSE]
        ELSE IF vocabulary.kind = "iterable"
        THEN IF e.status # Ok THEN Fail(e.status) ELSE Check(e.vocab)
        ELSE IF Cardinality(ids) # Len0(vocabulary.map)
        THEN Fail(ErrDuplicateId)
        ELSE Check(vocabulary.map)

\* Vectorizer._validate_vocabulary(vocabulary)
ValidateVocabulary(vocabulary) ==
    LET Fail(e) == [status |-> e, vocabulary |-> None, is_fixed |-> FALSE]
        Check(m) == IF Len0(m) = 0 THEN Fail(ErrEmptyArgument)
                    ELSE [status |-> Ok, vocabulary |-> Dict(m), is_fixed |-> TRUE]
        e == EnumerateTerms(Sorted(vocabulary.seq), 1, EmptyMap)
        ids == Range(vocabulary.map)
    IN  IF vocabulary.kind = "none"
        THEN [status |-> Ok, vocabulary |-> None, is_fixed |-> FALSE]
        ELSE IF vocabulary.kind = "iterable"
        THEN IF e.status # Ok THEN Fail(e.status) ELSE Check(e.vocab)
        ELSE IF Cardinality(ids) # Len0(vocabulary.map)
        THEN Fail(ErrDuplicateId)
        ELSE IF \E i \in 0..(Len0(vocabulary.map) - 1) : i \notin ids
        THEN Fail(ErrGap)
        ELSE Check(vocabulary.map)

\* the arguments of __init__
Args(cls, weighting, normalize, sublinear_tf, smooth_idf, min_df, max_df, min_ic, max_n_terms, voc_terms, voc_grps) ==
    [cls |-> cls, weighting |-> weighting, normalize |-> normalize,
     sublinear_tf |-> sublinear_tf, smooth_idf |-> smooth_idf,
     min_df |-> min_df, max_df |-> max_df, min_ic |-> min_ic,
     max_n_terms |-> max_n_terms, vocabulary_terms |-> voc_terms,
     vocabulary_grps |-> voc_grps]

\* Vectorizer.__init__ and GroupVectorizer.__init__: what the constructor
\* raises or the attributes it sets
Construct(a) ==
    LET vt == ValidateVocabulary(a.vocabulary_terms)
        vg == IF a.cls = "GroupVectorizer" THEN ValidateVocabulary(a.vocabulary_grps)
              ELSE ValidateVocabulary(Absent)
        status ==
            IF NumNeg(a.min_df) \/ NumNeg(a.max_df) THEN ErrInitDf
            ELSE IF NumNeg(a.min_ic) \/ a.min_ic.num > a.min_ic.den THEN ErrInitIc
            ELSE IF a.max_n_terms # NoInt /\ a.max_n_terms[1] # 0 /\ a.max_n_terms[1] < 0
            THEN ErrInitMaxNTerms
            ELSE IF vt.status # Ok THEN vt.status
            ELSE vg.status
    IN  [init |-> status,
         cfg |-> [cls |-> a.cls, weighting |-> a.weighting, normalize |-> a.normalize,
                  sublinear_tf |-> a.sublinear_tf, smooth_idf |-> a.smooth_idf,
                  min_df |-> a.min_df, max_df |-> a.max_df, min_ic |-> a.min_ic,
                  max_n_terms |-> a.max_n_terms,
                  fixed_terms |-> vt.is_fixed, fixed_grps |-> vg.is_fixed,
                  init |-> status],
         vocabulary_terms |-> IF status = Ok THEN vt.vocabulary ELSE None,
         vocabulary_grps |-> IF status = Ok THEN vg.vocabulary ELSE None]

----------------------------------------------------------------------------
(* Vectorizer *)

\* CheckVocabulary without the test for None
CheckVocabularyNoNone(self_vocabulary_terms) ==
    IF Len0(self_vocabulary_terms.map) = 0 THEN ErrEmptyVocabulary
    ELSE Ok

\* Vectorizer._check_vocabulary()
CheckVocabulary(self_vocabulary_terms) ==
    IF self_vocabulary_terms.is_none THEN ErrNotBuilt
    ELSE IF Len0(self_vocabulary_terms.map) = 0 THEN ErrEmptyVocabulary
    ELSE Ok

\* Vectorizer.terms_list: the terms sorted by their ids
TermsList(self_vocabulary_terms) ==
    LET voc == self_vocabulary_terms.map
        checked == CheckVocabulary(self_vocabulary_terms)
    IN  IF checked # Ok
        THEN [status |-> checked, list |-> <<>>]
        ELSE [status |-> Ok,
              list |-> [p \in 1..Len0(voc) |->
                          CHOOSE t \in DOMAIN voc :
                             Cardinality({u \in DOMAIN voc : voc[u] < voc[t]}) = p - 1]]

\* the filters of _filter_terms, applied in turn. A filter that returns early
\* hands back the dict it was given; otherwise it builds a new dict.
ApplyFilters(c, doc_term_matrix, vocabulary) ==
    LET by_df ==
            IF ~NumEq(c.max_df, 1) \/ ~NumEq(c.min_df, 1) \/ c.max_n_terms # NoInt
            THEN FilterTermsByDf(doc_term_matrix, vocabulary.map,
                                 c.max_df, c.min_df, c.max_n_terms)
            ELSE {Outcome(Ok, doc_term_matrix, vocabulary.map)}
        by_ic(o) ==
            IF o.status = Ok /\ ~NumEq(c.min_ic, 0)
            THEN FilterTermsByIc(o.matrix, o.vocabulary, c.min_ic, c.max_n_terms)
            ELSE {o}
    IN  {[o EXCEPT !.vocabulary = IF @ = vocabulary.map THEN vocabulary ELSE Dict(@)]
         : o \in UNION {by_ic(o) : o \in by_df}}

\* FilterTerms without the test of self._fixed_terms
FilterTermsAlways(c, doc_term_matrix, vocabulary) ==
    ApplyFilters(c, doc_term_matrix, vocabulary)

\* Vectorizer._filter_terms(doc_term_matrix, vocabulary): its possible outcomes
FilterTerms(c, doc_term_matrix, vocabulary) ==
    IF c.fixed_terms
    THEN {Outcome(Ok, doc_term_matrix, vocabulary)}
    ELSE ApplyFilters(c, doc_term_matrix, vocabulary)

\* The fields of `call`: the method, its arguments, whether
\* self.vocabulary_terms was a mapping when the call began, how many documents
\* the call took from the tokenized_docs iterator, and what it raised or
\* returned.
Call(op, tokenized_docs, grps, was_fit, consumed, status, result) ==
    [op |-> op, tokenized_docs |-> tokenized_docs, grps |-> grps,
     was_fit |-> was_fit, consumed |-> consumed, status |-> status,
     result |-> IF status = Ok THEN result ELSE NoMatrix]

NoCall == Call("none", <<>>, <<>>, FALSE, 0, Ok, NoMatrix)

\* the steps of fit_transform after counting: _filter_terms, the assignment
\* of self.vocabulary_terms, and _reweight_values
FilterAndReweight(c, counted) ==
    {IF f.status # Ok
     THEN [vocabulary_terms |-> counted.vocabulary, status |-> f.status,
           result |-> NoMatrix]
     ELSE LET w == ReweightValues(c, f.matrix)
          IN  [vocabulary_terms |-> f.vocabulary, status |-> w.status,
               result |-> w.matrix]
     : f \in FilterTerms(c, counted.matrix, counted.vocabulary)}

\* Vectorizer.fit_transform(tokenized_docs): the possible values of
\* self.vocabulary_terms and of the outcome when the call ends
FitTransformOutcomes(c, self_vocabulary_terms, tokenized_docs) ==
    LET counted == CountTerms(self_vocabulary_terms, tokenized_docs, c.fixed_terms)
    IN  IF counted.status # Ok
        THEN {[vocabulary_terms |-> self_vocabulary_terms, status |-> counted.status,
               result |-> NoMatrix]}
        ELSE FilterAndReweight(c, counted)

\* Vectorizer.fit_transform(tokenized_docs)
FitTransform ==
    /\ cfg.init = Ok /\ call.op = "none"
    /\ cfg.cls = "Vectorizer"
    /\ \E tokenized_docs \in DocSeqs :
         \E o \in FitTransformOutcomes(cfg, vocabulary_terms, tokenized_docs) :
            /\ vocabulary_terms' = o.vocabulary_terms
            /\ call' = Call("fit_transform", tokenized_docs, <<>>,
                            ~vocabulary_terms.is_none, Len(tokenized_docs),
                            o.status, o.result)
    /\ UNCHANGED <<cfg, vocabulary_grps, id_to_term_, id_to_grp_>>

\* Vectorizer.fit(tokenized_docs): fit_transform, the matrix is dropped
Fit ==
    /\ cfg.init = Ok /\ call.op = "none"
    /\ cfg.cls = "Vectorizer"
    /\ \E tokenized_docs \in DocSeqs :
         \E o \in FitTransformOutcomes(cfg, vocabulary_terms, tokenized_docs) :
            /\ vocabulary_terms' = o.vocabulary_terms
            /\ call' = Call("fit", tokenized_docs, <<>>,
                            ~vocabulary_terms.is_none, Len(tokenized_docs),
                            o.status, NoMatrix)
    /\ UNCHANGED <<cfg, vocabulary_grps, id_to_term_, id_to_grp_>>

\* the documents taken from the iterator when the first lookup
\* `vocabulary[term]` is made: all of them when no document has a term
UntilLookup(tokenized_docs) ==
    IF \E n \in 1..Len(tokenized_docs) : tokenized_docs[n] # <<>>
    THEN CHOOSE n \in 1..Len(tokenized_docs) :
            /\ tokenized_docs[n] # <<>>
            /\ \A k \in 1..(n - 1) : tokenized_docs[k] = <<>>
    ELSE Len(tokenized_docs)

\* Vectorizer.transform(tokenized_docs)
TransformOutcome(c, self_vocabulary_terms, tokenized_docs) ==
    LET checked == CheckVocabulary(self_vocabulary_terms)
        counted == CountTerms(self_vocabulary_terms, tokenized_docs, TRUE)
        w == ReweightValues(c, counted.matrix)
    IN  IF checked # Ok
        THEN [vocabulary_terms |-> self_vocabulary_terms, status |-> checked,
              result |-> NoMatrix, consumed |-> 0]
        ELSE IF counted.status # Ok
        THEN [vocabulary_terms |-> self_vocabulary_terms, status |-> counted.status,
              result |-> NoMatrix, consumed |-> UntilLookup(tokenized_docs)]
        ELSE [vocabulary_terms |-> counted.vocabulary, status |-> w.status,
              result |-> w.matrix, consumed |-> Len(tokenized_docs)]

Transform ==
    /\ cfg.init = Ok /\ call.op = "none"
    /\ cfg.cls = "Vectorizer"
    /\ \E tokenized_docs \in DocSeqs :
         LET o == TransformOutcome(cfg, vocabulary_terms, tokenized_docs)
         IN  /\ vocabulary_terms' = o.vocabulary_terms
             /\ call' = Call("transform", tokenized_docs, <<>>,
                             ~vocabulary_terms.is_none, o.consumed,
                             o.status, o.result)
    /\ UNCHANGED <<cfg, vocabulary_grps, id_to_term_, id_to_grp_>>

\* The caller is done with what the call returned or raised.
Return ==
    /\ call.op # "none"
    /\ call' = NoCall
    /\ UNCHANGED <<cfg, vocabulary_terms, vocabulary_grps, id_to_term_, id_to_grp_>>

\* {id: key for key, id in vocabulary.items()}; the ids of a vocabulary are
\* distinct, so every id has one key
Inverse(voc) == [i \in Range(voc) |-> CHOOSE t \in DOMAIN voc : voc[t] = i]

\* NeedsRebuild with the length of the cached dict compared with the length
\* of the vocabulary
NeedsRebuildByLen(id_to, vocabulary) ==
    vocabulary.is_none \/ Len0(id_to) # Len0(vocabulary.map)

\* `len(self.id_to_term_) != self.vocabulary_terms`: an int compared with a
\* dict or with None, which are never equal
NeedsRebuild(id_to, vocabulary) == TRUE

\* the body of the properties id_to_term and id_to_grp: what the read raises
\* or returns, and the cached dict it leaves
ReadInverse(id_to, vocabulary) ==
    IF NeedsRebuild(id_to, vocabulary)
    THEN IF vocabulary.is_none
         THEN [status |-> ErrAttrNone, id_to |-> id_to]
         ELSE [status |-> Ok, id_to |-> Inverse(vocabulary.map)]
    ELSE [status |-> Ok, id_to |-> id_to]

\* a read of a property: `before` is the cached dict when the read began,
\* `returned` the dict it returned
Read(op, was_fit, status, before, returned) ==
    [before |-> before, returned |-> IF status = Ok THEN returned ELSE EmptyMap]
    @@ Call(op, <<>>, <<>>, was_fit, 0, status, NoMatrix)

\* Vectorizer.id_to_term
IdToTerm ==
    /\ cfg.init = Ok /\ call.op = "none"
    /\ LET r == ReadInverse(id_to_term_, vocabulary_terms)
       IN  /\ id_to_term_' = r.id_to
           /\ call' = Read("id_to_term", ~vocabulary_terms.is_none, r.status,
                           id_to_term_, r.id_to)
    /\ UNCHANGED <<cfg, vocabulary_terms, vocabulary_grps, id_to_grp_>>

----------------------------------------------------------------------------
(* GroupVectorizer *)

\* AddCounter with the entries of the later document replacing those of the
\* same row and column instead of being added to them
AddCounterLast(row, term_counter) ==
    [j \in (DOMAIN row) \cup (DOMAIN term_counter) |->
        IF j \in DOMAIN term_counter THEN term_counter[j] ELSE row[j]]

\* the entries of one row added to those already collected for the same row:
\* csr_matrix((data, (rows, cols))) sums the entries that share (row, col)
AddCounter(row, term_counter) ==
    [j \in (DOMAIN row) \cup (DOMAIN term_counter) |->
        (IF j \in DOMAIN row THEN row[j] ELSE 0)
        + (IF j \in DOMAIN term_counter THEN term_counter[j] ELSE 0)]

\* GroupCountDocs with the terms of a document looked up before its group:
\* a document of an unknown group adds no entries, but its terms get ids
RECURSIVE GroupCountDocsTermsFirst(_, _, _, _, _)
GroupCountDocsTermsFirst(tokenized_docs, grps, vocabulary_terms_, vocabulary_grps_, entries) ==
    IF tokenized_docs = <<>> \/ grps = <<>>
    THEN [vocabulary_terms |-> vocabulary_terms_, vocabulary_grps |-> vocabulary_grps_,
          entries |-> entries]
    ELSE LET g == Lookup(vocabulary_grps_, Head(grps))
             c == CountDoc(Head(tokenized_docs), vocabulary_terms_, EmptyMap)
             row == IF g.idx \in DOMAIN entries THEN entries[g.idx] ELSE EmptyMap
         IN  IF ~g.found
             THEN GroupCountDocsTermsFirst(Tail(tokenized_docs), Tail(grps),
                                           c.vocabulary, vocabulary_grps_, entries)
             ELSE GroupCountDocsTermsFirst(Tail(tokenized_docs), Tail(grps),
                                           c.vocabulary, g.vocabulary,
                                           [k \in (DOMAIN entries) \cup {g.idx} |->
                                               IF k = g.idx THEN AddCounter(row, c.term_counter)
                                               ELSE entries[k]])

\* the loop `for grp, terms in zip(grps, tokenized_docs)` of
\* GroupVectorizer._count_terms; entries maps a row id to its entries
RECURSIVE GroupCountDocs(_, _, _, _, _)
GroupCountDocs(tokenized_docs, grps, vocabulary_terms_, vocabulary_grps_, entries) ==
    IF tokenized_docs = <<>> \/ grps = <<>>
    THEN [vocabulary_terms |-> vocabulary_terms_, vocabulary_grps |-> vocabulary_grps_,
          entries |-> entries]
    ELSE LET g == Lookup(vocabulary_grps_, Head(grps))
             c == CountDoc(Head(tokenized_docs), vocabulary_terms_, EmptyMap)
             row == IF g.idx \in DOMAIN entries THEN entries[g.idx] ELSE EmptyMap
         IN  IF ~g.found
             THEN GroupCountDocs(Tail(tokenized_docs), Tail(grps),
                                 vocabulary_terms_, vocabulary_grps_, entries)
             ELSE GroupCountDocs(Tail(tokenized_docs), Tail(grps),
                                 c.vocabulary, g.vocabulary,
                                 [k \in (DOMAIN entries) \cup {g.idx} |->
                                     IF k = g.idx THEN AddCounter(row, c.term_counter)
                                     ELSE entries[k]])

\* GroupVectorizer._count_terms(tokenized_docs, grps, fixed_vocab_terms,
\* fixed_vocab_grps)
GroupCountTerms(self_vocabulary_terms, self_vocabulary_grps, tokenized_docs, grps, fixed_vocab_terms, fixed_vocab_grps) ==
    LET vt == IF fixed_vocab_terms = FALSE THEN DefaultDict(EmptyMap)
              ELSE self_vocabulary_terms
        vg == IF fixed_vocab_grps = FALSE THEN DefaultDict(EmptyMap)
              ELSE self_vocabulary_grps
        c == GroupCountDocs(tokenized_docs, grps, vt, vg, EmptyMap)
        n_rows == Len0(c.vocabulary_grps.map)
    IN  IF vt.is_none \/ vg.is_none
        THEN [status |-> ErrTypeNone, matrix |-> NoMatrix,
              vocabulary |-> vt, vocabulary_grps |-> vg]
        ELSE [status |-> Ok,
              matrix |-> Matrix(n_rows, Len0(c.vocabulary_terms.map),
                                [i \in 1..n_rows |->
                                    IF (i - 1) \in DOMAIN c.entries
                                    THEN c.entries[i - 1] ELSE EmptyMap]),
              vocabulary |-> Undefault(c.vocabulary_terms, fixed_vocab_terms),
              vocabulary_grps |-> Undefault(c.vocabulary_grps, fixed_vocab_grps)]

\* GroupVectorizer.grps_list: _check_vocabulary looks at self.vocabulary_terms,
\* then the groups are sorted by their ids
GrpsList(self_vocabulary_terms, self_vocabulary_grps) ==
    LET voc == self_vocabulary_grps.map
        checked == CheckVocabulary(self_vocabulary_terms)
    IN  IF checked # Ok
        THEN [status |-> checked, list |-> <<>>]
        ELSE IF self_vocabulary_grps.is_none
        THEN [status |-> ErrAttrNone, list |-> <<>>]
        ELSE [status |-> Ok,
              list |-> [p \in 1..Len0(voc) |->
                          CHOOSE g \in DOMAIN voc :
                             Cardinality({h \in DOMAIN voc : voc[h] < voc[g]}) = p - 1]]

\* GroupVectorizer.fit_transform(tokenized_docs, grps)
GroupFitTransformOutcomes(c, self_vocabulary_terms, self_vocabulary_grps, tokenized_docs, grps) ==
    LET counted == GroupCountTerms(self_vocabulary_terms, self_vocabulary_grps,
                                   tokenized_docs, grps, c.fixed_terms, c.fixed_grps)
    IN  IF counted.status # Ok
        THEN {[vocabulary_terms |-> self_vocabulary_terms,
               vocabulary_grps |-> self_vocabulary_grps,
               status |-> counted.status, result |-> NoMatrix]}
        ELSE {[vocabulary_terms |-> o.vocabulary_terms,
               vocabulary_grps |-> counted.vocabulary_grps,
               status |-> o.status, result |-> o.result]
              : o \in FilterAndReweight(c, counted)}

\* the documents zip() takes before the loop ends
Zipped(tokenized_docs, grps) ==
    IF Len(tokenized_docs) <= Len(grps) THEN Len(tokenized_docs) ELSE Len(grps)

\* GroupVectorizer.transform(tokenized_docs, grps)
GroupTransformOutcome(c, self_vocabulary_terms, self_vocabulary_grps, tokenized_docs, grps) ==
    LET checked == CheckVocabulary(self_vocabulary_terms)
        counted == GroupCountTerms(self_vocabulary_terms, self_vocabulary_grps,
                                   tokenized_docs, grps, TRUE, TRUE)
        w == ReweightValues(c, counted.matrix)
    IN  IF checked # Ok
        THEN [vocabulary_terms |-> self_vocabulary_terms,
              vocabulary_grps |-> self_vocabulary_grps,
              status |-> checked, result |-> NoMatrix, consumed |-> 0]
        ELSE IF counted.status # Ok
        THEN [vocabulary_terms |-> self_vocabulary_terms,
              vocabulary_grps |-> self_vocabulary_grps,
              status |-> counted.status, result |-> NoMatrix,
              consumed |-> IF Zipped(tokenized_docs, grps) = 0 THEN 0 ELSE 1]
        ELSE [vocabulary_terms |-> counted.vocabulary,
              vocabulary_grps |-> counted.vocabulary_grps,
              status |-> w.status, result |-> w.matrix,
              consumed |-> Zipped(tokenized_docs, grps)]

GroupFitTransform ==
    /\ cfg.init = Ok /\ call.op = "none"
    /\ cfg.cls = "GroupVectorizer"
    /\ \E tokenized_docs \in DocSeqs : \E grps \in [1..Len(tokenized_docs) -> Groups] :
         \E o \in GroupFitTransformOutcomes(cfg, vocabulary_terms, vocabulary_grps,
                                            tokenized_docs, grps) :
            /\ vocabulary_terms' = o.vocabulary_terms
            /\ vocabulary_grps' = o.vocabulary_grps
            /\ call' = Call("fit_transform", tokenized_docs, grps,
                            ~vocabulary_terms.is_none, Zipped(tokenized_docs, grps), o.status, o.result)
    /\ UNCHANGED <<cfg, id_to_term_, id_to_grp_>>

GroupFit ==
    /\ cfg.init = Ok /\ call.op = "none"
    /\ cfg.cls = "GroupVectorizer"
    /\ \E tokenized_docs \in DocSeqs : \E grps \in [1..Len(tokenized_docs) -> Groups] :
         \E o \in GroupFitTransformOutcomes(cfg, vocabulary_terms, vocabulary_grps,
                                            tokenized_docs, grps) :
            /\ vocabulary_terms' = o.vocabulary_terms
            /\ vocabulary_grps' = o.vocabulary_grps
            /\ call' = Call("fit", tokenized_docs, grps,
                            ~vocabulary_terms.is_none, Zipped(tokenized_docs, grps), o.status, NoMatrix)
    /\ UNCHANGED <<cfg, id_to_term_, id_to_grp_>>

GroupTransform ==
    /\ cfg.init = Ok /\ call.op = "none"
    /\ cfg.cls = "GroupVectorizer"
    /\ \E tokenized_docs \in DocSeqs : \E grps \in [1..Len(tokenized_docs) -> Groups] :
         LET o == GroupTransformOutcome(cfg, vocabulary_terms, vocabulary_grps,
                                        tokenized_docs, grps)
         IN  /\ vocabulary_terms' = o.vocabulary_terms
             /\ vocabulary_grps' = o.vocabulary_grps
             /\ call' = Call("transform", tokenized_docs, grps,
                             ~vocabulary_terms.is_none, o.consumed,
                             o.status, o.result)
    /\ UNCHANGED <<cfg, id_to_term_, id_to_grp_>>

\* GroupVectorizer.id_to_grp
IdToGrp ==
    /\ cfg.init = Ok /\ call.op = "none"
    /\ cfg.cls = "GroupVectorizer"
    /\ LET r == ReadInverse(id_to_grp_, vocabulary_grps)
       IN  /\ id_to_grp_' = r.id_to
           /\ call' = Read("id_to_grp", ~vocabulary_terms.is_none, r.status,
                           id_to_grp_, r.id_to)
    /\ UNCHANGED <<cfg, vocabulary_terms, vocabulary_grps, id_to_term_>>

----------------------------------------------------------------------------
(* The instances of the model and the specification *)

DefaultArgs ==
    Args("Vectorizer", "tf", FALSE, FALSE, TRUE, PyInt(1), PyFloat(1, 1), PyFloat(0, 1),
         NoInt, Absent, Absent)

FixedAB == Mapping([t \in {"a", "b"} |-> IF t = "a" THEN 0 ELSE 1])
FixedBA == Mapping([t \in {"a", "b"} |-> IF t = "a" THEN 1 ELSE 0])
FixedB == Mapping([t \in {"b"} |-> 0])
FixedG1 == Mapping([g \in {"g1"} |-> 0])

Weightings == {"tf", "tfidf", "binary"}

\* the weighting modes, without and with a vocabulary
WeightingArgs ==
    {[DefaultArgs EXCEPT !.weighting = w, !.vocabulary_terms = v]
     : w \in Weightings, v \in {Absent, FixedBA, FixedB, Iterable(<<"b", "a">>)}}

\* min_df and max_df as counts and as fractions, without and with a vocabulary
DfArgs ==
    {[DefaultArgs EXCEPT !.min_df = df[1], !.max_df = df[2], !.vocabulary_terms = v]
     : df \in {<<PyInt(2), PyFloat(1, 1)>>, <<PyFloat(1, 1), PyFloat(1, 1)>>,
               <<PyFloat(1, 2), PyFloat(1, 1)>>, <<PyInt(1), PyInt(1)>>,
               <<PyInt(1), PyFloat(1, 2)>>, <<PyInt(2), PyInt(1)>>},
       v \in {Absent, FixedAB}}

\* the other two filter arguments, without and with a vocabulary
IcArgs ==
    {[DefaultArgs EXCEPT !.min_ic = ic[1], !.max_n_terms = ic[2], !.vocabulary_terms = v]
     : ic \in {<<PyFloat(1, 1), NoInt>>, <<PyFloat(0, 1), SomeInt(1)>>},
       v \in {Absent, FixedAB}}

GroupArgs ==
    {[DefaultArgs EXCEPT !.cls = "GroupVectorizer",
                         !.vocabulary_terms = vt, !.vocabulary_grps = vg]
     : vt \in {Absent, FixedBA}, vg \in {Absent, FixedG1}}

SpecArgs == WeightingArgs \cup DfArgs \cup IcArgs \cup GroupArgs

InitWith(args) ==
    \E a \in args :
        LET k == Construct(a)
        IN  /\ cfg = k.cfg
            /\ vocabulary_terms = k.vocabulary_terms
            /\ vocabulary_grps = k.vocabulary_grps
            /\ id_to_term_ = EmptyMap /\ id_to_grp_ = EmptyMap
            /\ call = NoCall

Init == InitWith(SpecArgs)

Next ==
    \/ Fit
    \/ FitTransform
    \/ Transform
    \/ GroupFit
    \/ GroupFitTransform
    \/ GroupTransform
    \/ Return

Spec == Init /\ [][Next]_vars

----------------------------------------------------------------------------
(* The weighting arguments *)

\* every combination of the weighting arguments, without a vocabulary
WeightArgs ==
    {[DefaultArgs EXCEPT !.weighting = w, !.normalize = n, !.sublinear_tf = s,
                         !.smooth_idf = i]
     : w \in Weightings, n \in BOOLEAN, s \in BOOLEAN, i \in BOOLEAN}

WeightInit == InitWith(WeightArgs)

WeightNext ==
    \/ Fit
    \/ FitTransform
    \/ Transform
    \/ Return

WeightSpec == WeightInit /\ [][WeightNext]_vars

----------------------------------------------------------------------------
(* filter_terms_by_df called on its own *)

\* the matrices and vocabularies a caller can hold: the counts of an input
\* stream over the vocabulary of its terms, or over a given vocabulary (some
\* of whose terms may occur in no document)
FilterInputs ==
    {CountTerms(v, docs, v # None) : docs \in DocSeqs, v \in {None, Dict(FixedAB.map)}}

FilterMinDf == {PyInt(1), PyInt(2), PyFloat(1, 2), PyFloat(1, 1)}
FilterMaxDf == {PyFloat(1, 1), PyInt(1), PyFloat(1, 2)}
FilterMaxNTerms == {NoInt, SomeInt(1)}

FilterMinIc == {PyFloat(0, 1), PyFloat(1, 2), PyFloat(1, 1)}

\* the two functions and the arguments each is called with
FilterCalls ==
    {[cls |-> "filter_terms_by_df", max_df |-> max_df, min_df |-> min_df,
      min_ic |-> PyFloat(0, 1), max_n_terms |-> max_n_terms]
     : max_df \in FilterMaxDf, min_df \in FilterMinDf, max_n_terms \in FilterMaxNTerms}
    \cup
    {[cls |-> "filter_terms_by_ic", max_df |-> PyFloat(1, 1), min_df |-> PyInt(1),
      min_ic |-> min_ic, max_n_terms |-> max_n_terms]
     : min_ic \in FilterMinIc, max_n_terms \in FilterMaxNTerms}

\* the arguments of the call are in cfg, term_to_id is in vocabulary_terms
FilterInit ==
    /\ \E i \in FilterInputs, f \in FilterCalls :
         /\ cfg = [cls |-> f.cls, doc_term_matrix |-> i.matrix,
                   term_to_id |-> i.vocabulary.map,
                   max_df |-> f.max_df, min_df |-> f.min_df, min_ic |-> f.min_ic,
                   max_n_terms |-> f.max_n_terms]
         /\ vocabulary_terms = i.vocabulary
    /\ vocabulary_grps = None
    /\ id_to_term_ = EmptyMap /\ id_to_grp_ = EmptyMap
    /\ call = NoCall

\* filter_terms_by_df(doc_term_matrix, term_to_id, max_df, min_df, max_n_terms)
\* returns or raises
FilterByDf ==
    /\ cfg.cls = "filter_terms_by_df" /\ call.op = "none"
    /\ \E o \in FilterTermsByDf(cfg.doc_term_matrix, cfg.term_to_id,
                                cfg.max_df, cfg.min_df, cfg.max_n_terms) :
         /\ call' = Call("filter_terms_by_df", <<>>, <<>>, TRUE, 0, o.status, o.matrix)
         /\ vocabulary_terms' = IF o.status = Ok THEN Dict(o.vocabulary)
                                ELSE vocabulary_terms
    /\ UNCHANGED <<cfg, vocabulary_grps, id_to_term_, id_to_grp_>>

\* filter_terms_by_ic(doc_term_matrix, term_to_id, min_ic, max_n_terms)
\* returns or raises
FilterByIc ==
    /\ cfg.cls = "filter_terms_by_ic" /\ call.op = "none"
    /\ \E o \in FilterTermsByIc(cfg.doc_term_matrix, cfg.term_to_id,
                                cfg.min_ic, cfg.max_n_terms) :
         /\ call' = Call("filter_terms_by_ic", <<>>, <<>>, TRUE, 0, o.status, o.matrix)
         /\ vocabulary_terms' = IF o.status = Ok THEN Dict(o.vocabulary)
                                ELSE vocabulary_terms
    /\ UNCHANGED <<cfg, vocabulary_grps, id_to_term_, id_to_grp_>>

FilterNext ==
    \/ FilterByDf
    \/ FilterByIc

FilterSpec == FilterInit /\ [][FilterNext]_vars

----------------------------------------------------------------------------
(* Construction on its own *)

\* the ids a mapping argument may use: one more than it can have terms
VocabIds == 0..Cardinality(Terms)

\* the vocabulary arguments over a set of strings: absent, every mapping of
\* some of the strings to ids, every iterable of strings
VocabularyArgs(strings) ==
    {Absent}
    \cup {Mapping(m) : m \in UNION {[S -> VocabIds] : S \in SUBSET strings}}
    \cup {Iterable(q) : q \in SeqsUpTo(strings, Cardinality(strings) + 1)}

\* constructor calls that differ in the vocabulary arguments
NewVocabularyArgs ==
    {[DefaultArgs EXCEPT !.vocabulary_terms = v] : v \in VocabularyArgs(Terms)}
    \cup {[DefaultArgs EXCEPT !.cls = "GroupVectorizer",
                              !.vocabulary_terms = vt, !.vocabulary_grps = vg]
          : vt \in {Absent, FixedAB, Iterable(<<"a", "a">>)},
            vg \in VocabularyArgs(Groups)}

\* constructor calls that differ in the other arguments
NewConfigArgs ==
    {[DefaultArgs EXCEPT !.cls = cls, !.weighting = w, !.min_df = min_df,
                         !.max_df = max_df, !.min_ic = min_ic, !.max_n_terms = n]
     : cls \in {"Vectorizer", "GroupVectorizer"},
       w \in Weightings \cup {"bm25"},
       min_df \in {PyInt(1), PyInt(-1), PyFloat(-1, 2)},
       max_df \in {PyFloat(1, 1), PyInt(-1)},
       min_ic \in {PyFloat(0, 1), PyFloat(1, 2), PyFloat(-1, 2), PyFloat(3, 2)},
       n \in {NoInt, SomeInt(0), SomeInt(1), SomeInt(-1)}}

\* before the constructor runs only its arguments are there
NewInit ==
    /\ \E a \in NewVocabularyArgs \cup NewConfigArgs :
         cfg = [init |-> "pending", args |-> a]
    /\ vocabulary_terms = None
    /\ vocabulary_grps = None
    /\ id_to_term_ = EmptyMap /\ id_to_grp_ = EmptyMap
    /\ call = NoCall

\* Vectorizer(...) or GroupVectorizer(...): __init__ raises or sets the
\* attributes of the instance
New ==
    /\ cfg.init = "pending"
    /\ LET k == Construct(cfg.args)
       IN  /\ cfg' = [args |-> cfg.args] @@ k.cfg
           /\ vocabulary_terms' = k.vocabulary_terms
           /\ vocabulary_grps' = k.vocabulary_grps
    /\ UNCHANGED <<id_to_term_, id_to_grp_, call>>

NewNext == New

NewSpec == NewInit /\ [][NewNext]_vars

----------------------------------------------------------------------------
(* The inverse mappings *)

\* without and with a filter, with a vocabulary given, and with groups over
\* given terms
ReadArgs ==
    {DefaultArgs,
     [DefaultArgs EXCEPT !.min_df = PyInt(2)],
     [DefaultArgs EXCEPT !.vocabulary_terms = FixedBA],
     [DefaultArgs EXCEPT !.cls = "GroupVectorizer", !.vocabulary_terms = FixedBA]}

ReadInit == InitWith(ReadArgs)

ReadNext ==
    \/ Fit
    \/ FitTransform
    \/ GroupFit
    \/ GroupFitTransform
    \/ IdToTerm
    \/ IdToGrp
    \/ Return

ReadSpec == ReadInit /\ [][ReadNext]_vars

----------------------------------------------------------------------------
(* Properties of term counting *)

\* the filter arguments are the defaults of __init__
DefaultFilters(c) ==
    /\ c.min_df = PyInt(1) /\ c.max_df = PyFloat(1, 1)
    /\ c.min_ic = PyFloat(0, 1) /\ c.max_n_terms = NoInt

\* the terms of a document
TermsOf(terms) == {terms[n] : n \in 1..Len(terms)}

\* (row i, column j) of m holds exactly the count k: nothing is stored for 0,
\* and the stored value is the unweighted integer otherwise
Holds(m, i, j, k) ==
    IF k = 0 THEN j \notin DOMAIN m.rows[i + 1]
    ELSE j \in DOMAIN m.rows[i + 1] /\ m.rows[i + 1][j] = Cell(k)

\* a Vectorizer.fit_transform call with raw tf values, the default filters
\* and no vocabulary argument has returned or raised
RawFitTransform ==
    /\ cfg.cls = "Vectorizer" /\ call.op = "fit_transform"
    /\ cfg.weighting = "tf" /\ ~cfg.sublinear_tf /\ ~cfg.normalize
    /\ DefaultFilters(cfg) /\ ~cfg.fixed_terms

\* C1: fit_transform with weighting 'tf', no filters and an open vocabulary
\* returns one row per input document, in input order, whose entry in the
\* column of a term is the number of times the term occurs in the document;
\* every other entry of the row is 0 and no entry is negative.
C1_RawCounts ==
    RawFitTransform =>
        LET m == call.result
            docs == call.tokenized_docs
            voc == vocabulary_terms.map
        IN  /\ call.status = Ok
            /\ m.n_rows = Len(docs) /\ Len(m.rows) = Len(docs)
            /\ m.n_cols = Len0(voc)
            /\ \A i \in 1..Len(docs) :
                 /\ TermsOf(docs[i]) \subseteq DOMAIN voc
                 /\ \A t \in TermsOf(docs[i]) :
                      Holds(m, i - 1, voc[t], Occurrences(docs[i], t))
                 /\ \A j \in Cols(m) :
                      (\A t \in TermsOf(docs[i]) : voc[t] # j) => Holds(m, i - 1, j, 0)
                 /\ DOMAIN m.rows[i] \subseteq Cols(m)
                 /\ \A j \in DOMAIN m.rows[i] : m.rows[i][j].tf > 0

\* C1 witness: a term counted twice in one document next to an empty document
C1_Witness ==
    /\ RawFitTransform /\ call.status = Ok
    /\ \E i, k \in 1..Len(call.tokenized_docs) :
         /\ call.tokenized_docs[k] = <<>>
         /\ \E t \in Terms :
              /\ Occurrences(call.tokenized_docs[i], t) = 2
              /\ call.result.rows[i][vocabulary_terms.map[t]] = Cell(2)

\* the input stream as one sequence of terms
RECURSIVE Flatten(_)
Flatten(docs) == IF docs = <<>> THEN <<>> ELSE Head(docs) \o Flatten(Tail(docs))

FirstIndex(q, t) == CHOOSE n \in 1..Len(q) : q[n] = t /\ \A k \in 1..(n - 1) : q[k] # t

\* a Vectorizer fit or fit_transform call that neither was given a vocabulary
\* nor filters has returned or raised
OpenCount ==
    /\ cfg.cls = "Vectorizer" /\ call.op \in {"fit", "fit_transform"}
    /\ DefaultFilters(cfg) /\ ~cfg.fixed_terms

\* C2: counting with an open vocabulary gives every distinct term the number
\* of distinct terms seen before its first occurrence in the input stream as
\* its id, so the ids are exactly 0..n-1.
C2_FirstAppearanceIds ==
    OpenCount =>
        LET stream == Flatten(call.tokenized_docs)
            voc == vocabulary_terms.map
        IN  /\ ~vocabulary_terms.is_none
            /\ DOMAIN voc = TermsOf(stream)
            /\ \A t \in DOMAIN voc :
                 voc[t] = Cardinality({u \in TermsOf(stream) :
                                          FirstIndex(stream, u) < FirstIndex(stream, t)})
            /\ Range(voc) = 0..(Len0(voc) - 1)

\* C2 witness: ids in the order of first appearance that is not the sorted one
C2_Witness ==
    /\ OpenCount /\ call.status = Ok
    /\ DOMAIN vocabulary_terms.map = {"a", "b"}
    /\ vocabulary_terms.map["b"] = 0 /\ vocabulary_terms.map["a"] = 1

----------------------------------------------------------------------------
(* Properties of the vocabulary's life cycle *)

\* C3: on a Vectorizer constructed with a vocabulary V, fit_transform and
\* transform of any input (an empty stream and documents of unknown terms
\* included) succeed and return one row per document and len(V) columns,
\* in every weighting mode.
C3_FixedVocabularyAnyInput ==
    (/\ cfg.cls = "Vectorizer" /\ cfg.fixed_terms
     /\ call.op \in {"fit_transform", "transform"})
    => /\ call.status = Ok
       /\ call.result.n_cols = Len0(vocabulary_terms.map)
       /\ call.result.n_rows = Len(call.tokenized_docs)

\* a transform call begins
TransformStep == call.op = "none" /\ call'.op = "transform"

\* a fit or fit_transform call begins
FitStep == call.op = "none" /\ call'.op \in {"fit", "fit_transform"}

\* C4: a Vectorizer constructed without a vocabulary has none until it is
\* fit, and transform on it then raises "vocabulary hasn't been built", takes
\* no document from the input and changes nothing on the instance; on a
\* Vectorizer constructed with a vocabulary, transform passes the vocabulary
\* check from the first call on and reads the whole input.
C4_TransformNeedsVocabulary ==
    /\ (cfg.fixed_terms \/ vocabulary_terms.is_none)
    /\ [][(TransformStep /\ cfg.cls = "Vectorizer") =>
            /\ vocabulary_terms.is_none =>
                 /\ call'.status = ErrNotBuilt
                 /\ call'.consumed = 0
                 /\ call'.result = NoMatrix
                 /\ <<cfg, vocabulary_terms, vocabulary_grps, id_to_term_, id_to_grp_>>' =
                        <<cfg, vocabulary_terms, vocabulary_grps, id_to_term_, id_to_grp_>>
            /\ cfg.fixed_terms =>
                 /\ call'.status \notin {ErrNotBuilt, ErrEmptyVocabulary, ErrTypeNone}
                 /\ call'.consumed = Len(call'.tokenized_docs)]_vars

\* C4 witness: transform of a non-empty input on a Vectorizer that has no
\* vocabulary has raised, and there still is no vocabulary
C4_Witness ==
    /\ cfg.cls = "Vectorizer" /\ ~cfg.fixed_terms
    /\ call.op = "transform" /\ ~call.was_fit
    /\ call.tokenized_docs # <<>> /\ call.tokenized_docs[1] # <<>>
    /\ call.status = ErrNotBuilt /\ call.consumed = 0
    /\ vocabulary_terms.is_none

\* C5: when fit or fit_transform raises on a Vectorizer that had no vocabulary
\* and was constructed without one, the instance still has none: transform of
\* any input raises "vocabulary hasn't been built" afterwards.
C5_FailedFitStaysUnfit ==
    (/\ cfg.cls = "Vectorizer" /\ ~cfg.fixed_terms
     /\ call.op \in {"fit", "fit_transform"} /\ ~call.was_fit
     /\ call.status # Ok)
    => \A tokenized_docs \in DocSeqs :
          TransformOutcome(cfg, vocabulary_terms, tokenized_docs).status = ErrNotBuilt

\* C6: transform leaves vocabulary_terms and vocabulary_grps as they were,
\* whether they were learned or given and whatever the input; the matrix it
\* returns has the columns of the vocabulary, none for an unseen term.
C6_TransformKeepsVocabulary ==
    [][TransformStep =>
         /\ vocabulary_terms' = vocabulary_terms
         /\ vocabulary_grps' = vocabulary_grps
         /\ call'.status = Ok =>
              /\ call'.result.n_cols = Len0(vocabulary_terms.map)
              /\ cfg.cls = "GroupVectorizer" =>
                   call'.result.n_rows = Len0(vocabulary_grps.map)]_vars

\* C6 witness: transform on a learned vocabulary has returned a matrix for an
\* input with a term that is not in the vocabulary
C6_Witness ==
    /\ call.op = "transform" /\ call.status = Ok
    /\ ~cfg.fixed_terms /\ call.was_fit
    /\ \E i \in 1..Len(call.tokenized_docs) :
         /\ TermsOf(call.tokenized_docs[i]) \ DOMAIN vocabulary_terms.map # {}
         /\ TermsOf(call.tokenized_docs[i]) \cap DOMAIN vocabulary_terms.map # {}

\* the errors the filters raise
FilterErrors == {ErrNegative, ErrBounds, ErrNoTermsDf, ErrNoTermsIc, ErrMinIc}

\* C7: fit and fit_transform on an instance constructed with a term vocabulary
\* leave vocabulary_terms as it was and raise no filter error, whatever
\* min_df, max_df, min_ic and max_n_terms are; the matrix returned has every
\* column of the vocabulary under its id, and a Vectorizer's row has an entry
\* in exactly the columns of the document's known terms.
C7_FixedVocabularyNotFiltered ==
    [][(FitStep /\ cfg.fixed_terms) =>
         /\ vocabulary_terms' = vocabulary_terms
         /\ call'.status \notin FilterErrors
         /\ (call'.op = "fit_transform" /\ call'.status = Ok) =>
              LET m == call'.result
                  docs == call'.tokenized_docs
                  voc == vocabulary_terms.map
              IN  /\ m.n_cols = Len0(voc)
                  /\ cfg.cls = "Vectorizer" =>
                       \A i \in 1..Len(docs) : \A t \in DOMAIN voc :
                          (voc[t] \in DOMAIN m.rows[i]) <=> (t \in TermsOf(docs[i]))]_vars

\* C7 witness: with min_df = 2 and a given vocabulary, fit_transform has
\* returned a matrix that has a column with fewer than two documents
C7_Witness ==
    /\ cfg.fixed_terms /\ cfg.min_df = PyInt(2)
    /\ call.op = "fit_transform" /\ call.status = Ok
    /\ call.result.n_rows > 0
    /\ \E j \in Cols(call.result) : BinCount(call.result)[j] < 2

\* the outcome as the caller and the instance see it
Seen(op, status, result) ==
    <<status, IF op = "fit_transform" /\ status = Ok THEN result ELSE NoMatrix>>

\* C8: on an instance constructed without vocabularies, the vocabulary and
\* the matrix that fit / fit_transform leaves and returns are those the same
\* call gives on a new instance of the same configuration, whatever was fit
\* before.
C8_RefitStartsOver ==
    (call.op \in {"fit", "fit_transform"} /\ ~cfg.fixed_terms /\ ~cfg.fixed_grps)
    => IF cfg.cls = "Vectorizer"
       THEN \E o \in FitTransformOutcomes(cfg, None, call.tokenized_docs) :
               /\ o.vocabulary_terms = vocabulary_terms
               /\ Seen(call.op, o.status, o.result)
                    = Seen(call.op, call.status, call.result)
       ELSE \E o \in GroupFitTransformOutcomes(cfg, None, None,
                                               call.tokenized_docs, call.grps) :
               /\ o.vocabulary_terms = vocabulary_terms
               /\ o.vocabulary_grps = vocabulary_grps
               /\ Seen(call.op, o.status, o.result)
                    = Seen(call.op, call.status, call.result)

\* C8 witness: fit_transform on an instance that already had a learned
\* vocabulary has returned a matrix whose only term is "b"
C8_Witness ==
    /\ call.op = "fit_transform" /\ call.status = Ok
    /\ ~cfg.fixed_terms /\ ~cfg.fixed_grps /\ call.was_fit
    /\ DOMAIN vocabulary_terms.map = {"b"}
    /\ call.result.n_cols = 1

----------------------------------------------------------------------------
(* Properties of the document-frequency filter *)

\* the number of documents of the input a term occurs in
DocFreq(docs, t) == Cardinality({i \in 1..Len(docs) : t \in TermsOf(docs[i])})

\* C10: an int min_df / max_df is a number of documents and a float one a
\* fraction of the number of documents, and the filter runs whenever one of
\* them is not its default: the terms fit / fit_transform of a Vectorizer
\* keeps are those of the input whose document frequency d has
\* min_df <= d <= max_df so resolved.
C10_IntIsCountFloatIsFraction ==
    (/\ cfg.cls = "Vectorizer" /\ ~cfg.fixed_terms
     /\ cfg.min_ic = PyFloat(0, 1) /\ cfg.max_n_terms = NoInt
     /\ call.op \in {"fit", "fit_transform"} /\ call.status = Ok)
    => LET docs == call.tokenized_docs
           lo == DocCount(cfg.min_df, Len(docs))
           hi == DocCount(cfg.max_df, Len(docs))
       IN  DOMAIN vocabulary_terms.map =
              {t \in TermsOf(Flatten(docs)) :
                  lo <= DocFreq(docs, t) /\ DocFreq(docs, t) <= hi}

\* C9: when filter_terms_by_df returns for a matrix, a vocabulary with ids
\* 0..n-1 and no max_n_terms, the terms it keeps are exactly those whose
\* column has a document frequency d with min_df <= d <= max_df (an int a
\* count, a float a fraction of the rows), the matrix has one column for each
\* of them, and their ids are exactly 0..m-1.
C9_ClosedRange ==
    (/\ call.op = "filter_terms_by_df" /\ call.status = Ok
     /\ cfg.max_n_terms = NoInt)
    => LET m == cfg.doc_term_matrix
           dfs == BinCount(m)
           lo == DocCount(cfg.min_df, m.n_rows)
           hi == DocCount(cfg.max_df, m.n_rows)
           voc == vocabulary_terms.map
       IN  /\ DOMAIN voc = {t \in DOMAIN cfg.term_to_id :
                              /\ lo <= dfs[cfg.term_to_id[t]]
                              /\ dfs[cfg.term_to_id[t]] <= hi}
           /\ Range(voc) = 0..(Len0(voc) - 1)
           /\ call.result.n_cols = Len0(voc)

\* the column sums of a matrix of counts
ColumnSums(m) == [j \in Cols(m) |-> SumNat([i \in 1..m.n_rows |-> Entry(m, i - 1, j)], 1..m.n_rows)]

\* the first k of the columns P in a stable sort by descending key: of two
\* columns with equal keys the one with the smaller id comes first
StableTop(P, key, k) ==
    CHOOSE S \in SUBSET P :
        /\ Cardinality(S) = k
        /\ \A x \in S : \A y \in P \ S :
              key[x] > key[y] \/ (key[x] = key[y] /\ x < y)

\* the original ids of the terms a filter call has kept
KeptIds == {cfg.term_to_id[t] : t \in DOMAIN vocabulary_terms.map}

\* C11: when filter_terms_by_df returns with max_n_terms set and more than
\* max_n_terms columns have a document frequency within the min_df / max_df
\* bounds, the columns kept are exactly the first max_n_terms of them in a
\* stable sort by descending term frequency (smaller id first among equals).
C11_StableTopTerms ==
    (/\ call.op = "filter_terms_by_df" /\ call.status = Ok
     /\ cfg.max_n_terms # NoInt)
    => LET m == cfg.doc_term_matrix
           dfs == BinCount(m)
           lo == DocCount(cfg.min_df, m.n_rows)
           hi == DocCount(cfg.max_df, m.n_rows)
           passing == {j \in Cols(m) : lo <= dfs[j] /\ dfs[j] <= hi}
       IN  Cardinality(passing) > cfg.max_n_terms[1]
           => /\ Cardinality(KeptIds) = cfg.max_n_terms[1]
              /\ KeptIds = StableTop(passing, ColumnSums(m), cfg.max_n_terms[1])

\* a call of one of the two filter functions has returned
FilterReturned ==
    call.op \in {"filter_terms_by_df", "filter_terms_by_ic"} /\ call.status = Ok

\* C12: after filter_terms_by_df or filter_terms_by_ic the new id of a kept
\* term is the number of kept original ids smaller than its original id (so
\* the kept terms keep their order and get the ids 0..m-1), column j of the
\* returned matrix is the original column of the term with new id j, and
\* terms_list[j] is that term (terms_list reads a vocabulary that has terms).
C12_CompactRenumbering ==
    FilterReturned =>
        LET old == cfg.term_to_id
            voc == vocabulary_terms.map
            m == cfg.doc_term_matrix
            r == call.result
            terms_list == TermsList(vocabulary_terms)
        IN  /\ DOMAIN voc \subseteq DOMAIN old
            /\ r.n_rows = m.n_rows /\ r.n_cols = Len0(voc)
            /\ Len0(voc) > 0 => terms_list.status = Ok
            /\ Len(terms_list.list) = r.n_cols
            /\ \A t \in DOMAIN voc :
                 /\ voc[t] = Cardinality({j \in KeptIds : j < old[t]})
                 /\ terms_list.list[voc[t] + 1] = t
                 /\ \A i \in 1..m.n_rows :
                      /\ (voc[t] \in DOMAIN r.rows[i]) <=> (old[t] \in DOMAIN m.rows[i])
                      /\ Entry(r, i - 1, voc[t]) = Entry(m, i - 1, old[t])
            /\ \A i \in 1..r.n_rows : DOMAIN r.rows[i] \subseteq Cols(r)

\* C12 witness: a filter has dropped column 0 and kept column 1, whose term
\* now has id 0 and the counts of the old column 1
C12_Witness ==
    /\ FilterReturned
    /\ \E t \in DOMAIN vocabulary_terms.map :
         /\ cfg.term_to_id[t] = 1 /\ vocabulary_terms.map[t] = 0
         /\ \E i \in 1..cfg.doc_term_matrix.n_rows : 0 \in DOMAIN call.result.rows[i]

----------------------------------------------------------------------------
(* Properties of the vocabulary and the matrix shape *)

\* C13: whenever fit, fit_transform or transform of a Vectorizer or
\* GroupVectorizer succeeds, vocabulary_terms is a mapping whose ids are
\* unique and exactly 0..size-1, and the matrix returned has size columns and
\* no entry outside them.
C13_ColumnsMatchVocabulary ==
    (call.op \in {"fit", "fit_transform", "transform"} /\ call.status = Ok)
    => LET voc == vocabulary_terms.map
           m == call.result
       IN  /\ ~vocabulary_terms.is_none
           /\ Range(voc) = 0..(Len0(voc) - 1)
           /\ \A t, u \in DOMAIN voc : voc[t] = voc[u] => t = u
           /\ call.op # "fit" =>
                /\ m.n_cols = Len0(voc)
                /\ \A i \in 1..m.n_rows : DOMAIN m.rows[i] \subseteq Cols(m)

\* C13 witness: fit_transform has dropped one of the two terms of its input
\* and returned a matrix with one column and an entry in it
C13_Witness ==
    /\ call.op = "fit_transform" /\ call.status = Ok /\ ~cfg.fixed_terms
    /\ TermsOf(Flatten(call.tokenized_docs)) = {"a", "b"}
    /\ Len0(vocabulary_terms.map) = 1 /\ call.result.n_cols = 1
    /\ \E i \in 1..call.result.n_rows : 0 \in DOMAIN call.result.rows[i]

\* C14: whenever fit or fit_transform on an instance constructed without a
\* term vocabulary succeeds, for an empty input and for empty documents too,
\* vocabulary_terms has at least one term, so neither a following transform
\* nor terms_list raises "vocabulary is empty".
C14_VocabularyNeverEmpty ==
    (/\ call.op \in {"fit", "fit_transform"} /\ call.status = Ok
     /\ ~cfg.fixed_terms)
    => /\ Len0(vocabulary_terms.map) > 0
       /\ CheckVocabulary(vocabulary_terms) # ErrEmptyVocabulary
       /\ TermsList(vocabulary_terms).status # ErrEmptyVocabulary

----------------------------------------------------------------------------
(* Properties of construction *)

\* the constructor has run
Constructed == cfg.init # "pending"

\* position of a string in Python's sort order
SortKey(x) == CHOOSE k \in 1..Len(StrOrder) : StrOrder[k] = x

\* what C15 says of one vocabulary argument v: whether it is rejected, and
\* the vocabulary and the fixed flag that come of it when it is not
ValidatedAs(v, rejected, vocabulary, is_fixed) ==
    LET m == v.map
        q == v.seq
    IN  IF v.kind = "none"
        THEN ~rejected /\ vocabulary = None /\ ~is_fixed
        ELSE IF v.kind = "mapping"
        THEN /\ rejected <=>
                  \/ \E t, u \in DOMAIN m : t # u /\ m[t] = m[u]
                  \/ \E i \in 0..(Len0(m) - 1) : \A t \in DOMAIN m : m[t] # i
                  \/ Len0(m) = 0
             /\ ~rejected => vocabulary = Dict(m) /\ is_fixed
        ELSE /\ rejected <=>
                  \/ \E i, j \in 1..Len(q) : i # j /\ q[i] = q[j]
                  \/ Len(q) = 0
             /\ ~rejected =>
                  /\ is_fixed /\ ~vocabulary.is_none
                  /\ DOMAIN vocabulary.map = TermsOf(q)
                  /\ \A t \in TermsOf(q) :
                       vocabulary.map[t] =
                          Cardinality({u \in TermsOf(q) : SortKey(u) < SortKey(t)})

\* C15: with the other arguments valid, the constructor rejects a mapping
\* iff two terms share an id, an id in [0, size) is missing or it is empty,
\* and an iterable iff it repeats a term or is empty; an accepted mapping is
\* the vocabulary, an accepted iterable gives its terms the ids 0..n-1 in
\* sorted order, and the vocabulary is fixed iff the argument was given.
\* The same holds of vocabulary_grps once vocabulary_terms is accepted.
C15_ValidateVocabulary ==
    (Constructed /\ cfg.args \in NewVocabularyArgs)
    => LET a == cfg.args
           terms_rejected ==
               cfg.init \in {ErrDuplicateTerm, ErrDuplicateId, ErrGap, ErrEmptyArgument}
           terms_ok == ValidateVocabulary(a.vocabulary_terms).status = Ok
       IN  IF a.cls = "Vectorizer"
           THEN /\ ValidatedAs(a.vocabulary_terms, terms_rejected,
                               vocabulary_terms, cfg.fixed_terms)
                /\ terms_rejected <=> cfg.init # Ok
           ELSE terms_ok =>
                   /\ ValidatedAs(a.vocabulary_grps, terms_rejected,
                                  vocabulary_grps, cfg.fixed_grps)
                   /\ terms_rejected <=> cfg.init # Ok

\* C15 witness: an iterable given out of order was accepted and sorted
C15_Witness ==
    /\ Constructed /\ cfg.init = Ok /\ cfg.cls = "Vectorizer"
    /\ cfg.args.vocabulary_terms = Iterable(<<"b", "a">>)
    /\ vocabulary_terms = Dict(FixedAB.map) /\ cfg.fixed_terms

\* C16: the constructor raises for a weighting that is not 'tf', 'tfidf' or
\* 'binary', for a negative min_df or max_df, for a min_ic outside [0, 1]
\* and for a negative max_n_terms, so no instance has such a configuration.
C16_ConfigurationValidated ==
    Constructed =>
        LET a == cfg.args
        IN  (\/ a.weighting \notin Weightings
             \/ NumNeg(a.min_df) \/ NumNeg(a.max_df)
             \/ NumNeg(a.min_ic) \/ a.min_ic.num > a.min_ic.den
             \/ (a.max_n_terms # NoInt /\ a.max_n_terms[1] < 0))
            => cfg.init # Ok

----------------------------------------------------------------------------
(* Properties of the weighting *)

\* a Vectorizer call that returns a matrix has returned one
Weighted ==
    /\ cfg.cls = "Vectorizer" /\ call.op \in {"fit_transform", "transform"}
    /\ call.status = Ok

\* the stored value at column j of a row is the number 1: the count is 1
\* (1 + ln(1) is 1 as well), an idf factor ln(n / df) + 1 is 1 only for
\* n = df, and a value divided by the norm of its row is 1 only when it is
\* the only value of the row
IsOne(row, j) ==
    /\ row[j].tf = 1
    /\ row[j].idf # <<>> => row[j].idf[1] = row[j].idf[2]
    /\ row[j].l2 => DOMAIN row = {j}

\* C17: with weighting 'binary' every stored value of the matrix returned by
\* fit_transform / transform is exactly 1, whatever sublinear_tf, smooth_idf
\* and normalize are.
C17_BinarySkipsAllSteps ==
    (Weighted /\ cfg.weighting = "binary")
    => \A i \in 1..call.result.n_rows : \A j \in DOMAIN call.result.rows[i] :
          IsOne(call.result.rows[i], j)

\* the number of times a step was applied to a stored value
StepCount(cell, step) == Cardinality({n \in 1..Len(cell.steps) : cell.steps[n] = step})

\* C18: with normalize set, in every weighting mode, the L2 normalization is
\* applied to every stored value, once and after every other step; a row has
\* stored values exactly in the columns of the known terms of its document,
\* so a row without any stays without.
C18_NormalizeLast ==
    (Weighted /\ cfg.normalize = TRUE)
    => LET m == call.result
           docs == call.tokenized_docs
           voc == vocabulary_terms.map
       IN  \A i \in 1..m.n_rows :
              /\ DOMAIN m.rows[i] = {voc[t] : t \in TermsOf(docs[i]) \cap DOMAIN voc}
              /\ \A j \in DOMAIN m.rows[i] :
                   LET cell == m.rows[i][j]
                   IN  /\ cell.l2
                       /\ cell.steps # <<>>
                       /\ cell.steps[Len(cell.steps)] = "normalize"
                       /\ StepCount(cell, "normalize") = 1

\* C18 witness: a tfidf matrix with sublinear_tf was normalized last, next
\* to a row without values
C18_Witness ==
    /\ Weighted /\ cfg.normalize = TRUE /\ cfg.weighting = "tfidf"
    /\ cfg.sublinear_tf = TRUE
    /\ \E i, k \in 1..call.result.n_rows :
         /\ DOMAIN call.result.rows[k] = {}
         /\ \E j \in DOMAIN call.result.rows[i] :
              call.result.rows[i][j].steps = <<"sublinear_tf", "idf", "normalize">>

\* C19: with weighting 'tfidf' and sublinear_tf, every stored count v of the
\* matrix fit_transform returns is first replaced by 1 + ln(v) and then
\* multiplied by the idf of its column, and that idf is computed from the
\* number of documents and the document frequency of the term in the input,
\* as the unscaled counts give them (each plus 1 with smooth_idf).
C19_SublinearThenIdf ==
    (/\ Weighted /\ call.op = "fit_transform"
     /\ cfg.weighting = "tfidf" /\ cfg.sublinear_tf = TRUE)
    => LET m == call.result
           docs == call.tokenized_docs
           voc == vocabulary_terms.map
           s == IF cfg.smooth_idf = TRUE THEN 1 ELSE 0
       IN  \A i \in 1..m.n_rows : \A t \in TermsOf(docs[i]) :
              LET cell == m.rows[i][voc[t]]
              IN  /\ cell.tf = Occurrences(docs[i], t)
                  /\ cell.sub
                  /\ cell.idf = <<Len(docs) + s, DocFreq(docs, t) + s>>
                  /\ Len(cell.steps) >= 2
                  /\ cell.steps[1] = "sublinear_tf" /\ cell.steps[2] = "idf"
                  /\ StepCount(cell, "sublinear_tf") = 1
                  /\ StepCount(cell, "idf") = 1

\* C19 witness: a count of 2 of a term that is in one of two documents
C19_Witness ==
    /\ Weighted /\ call.op = "fit_transform"
    /\ cfg.weighting = "tfidf" /\ cfg.sublinear_tf = TRUE /\ cfg.smooth_idf = FALSE
    /\ Len(call.tokenized_docs) = 2
    /\ \E i \in 1..2 : \E j \in DOMAIN call.result.rows[i] :
         LET cell == call.result.rows[i][j]
         IN  cell.tf = 2 /\ cell.idf = <<2, 1>> /\ cell.steps[1] = "sublinear_tf"

\* two rows hold the same numbers: the same columns, and in each the same
\* count, the same steps and idf factors ln(n / df) + 1 of equal ratio n / df
SameRow(row, other) ==
    /\ DOMAIN row = DOMAIN other
    /\ \A j \in DOMAIN row :
         /\ row[j].tf = other[j].tf /\ row[j].steps = other[j].steps
         /\ (row[j].idf = <<>>) <=> (other[j].idf = <<>>)
         /\ row[j].idf # <<>> =>
              row[j].idf[1] * other[j].idf[2] = other[j].idf[1] * row[j].idf[2]

\* C20: on a Vectorizer with weighting 'tfidf', the row transform returns
\* for a document is the same whatever other documents are transformed with
\* it: the idf factors do not come from the input of transform.
C20_TransformUsesFitIdf ==
    (Weighted /\ call.op = "transform" /\ cfg.weighting = "tfidf")
    => \A other \in DocSeqs :
          LET o == TransformOutcome(cfg, vocabulary_terms, other)
          IN  o.status = Ok =>
                 \A i \in 1..Len(call.tokenized_docs) : \A k \in 1..Len(other) :
                    call.tokenized_docs[i] = other[k]
                    => SameRow(call.result.rows[i], o.result.rows[k])

----------------------------------------------------------------------------
(* Properties of GroupVectorizer *)

\* the occurrences of term t over all the documents labelled g
GroupTotal(docs, grps, g, t) ==
    SumNat([i \in 1..Len(docs) |-> IF grps[i] = g THEN Occurrences(docs[i], t) ELSE 0],
           1..Len(docs))

\* a GroupVectorizer.fit_transform call with raw tf values and the default
\* filters has returned or raised
RawGroupFitTransform ==
    /\ cfg.cls = "GroupVectorizer" /\ call.op = "fit_transform"
    /\ cfg.weighting = "tf" /\ ~cfg.sublinear_tf /\ ~cfg.normalize
    /\ DefaultFilters(cfg)

\* C21: GroupVectorizer.fit_transform with weighting 'tf' and no filters
\* returns one row per id of the group vocabulary, in id order (the order of
\* first appearance when the group vocabulary is open); the entry at the row
\* of group g and the column of term t is the number of occurrences of t over
\* all the documents labelled g, stored once.
C21_GroupTotals ==
    RawGroupFitTransform =>
        LET m == call.result
            docs == call.tokenized_docs
            grps == call.grps
            vt == vocabulary_terms.map
            vg == vocabulary_grps.map
        IN  /\ call.status = Ok
            /\ m.n_rows = Len0(vg) /\ Len(m.rows) = Len0(vg)
            /\ m.n_cols = Len0(vt)
            /\ Range(vg) = 0..(Len0(vg) - 1)
            /\ ~cfg.fixed_grps =>
                 /\ DOMAIN vg = TermsOf(grps)
                 /\ \A g \in DOMAIN vg :
                      vg[g] = Cardinality({h \in TermsOf(grps) :
                                              FirstIndex(grps, h) < FirstIndex(grps, g)})
            /\ \A g \in DOMAIN vg :
                 /\ DOMAIN m.rows[vg[g] + 1] \subseteq Range(vt)
                 /\ \A t \in DOMAIN vt :
                      Holds(m, vg[g], vt[t], GroupTotal(docs, grps, g, t))

\* C21 witness: two documents of one group share a term, and the row of the
\* group holds the total
C21_Witness ==
    /\ RawGroupFitTransform /\ call.status = Ok
    /\ Len(call.tokenized_docs) = 2
    /\ call.grps[1] = call.grps[2]
    /\ \E t \in DOMAIN vocabulary_terms.map :
         /\ Occurrences(call.tokenized_docs[1], t) >= 1
         /\ Occurrences(call.tokenized_docs[2], t) >= 1
         /\ call.result.rows[vocabulary_grps.map[call.grps[1]] + 1][vocabulary_terms.map[t]]
               = Cell(Occurrences(call.tokenized_docs[1], t)
                      + Occurrences(call.tokenized_docs[2], t))

\* C22: on a GroupVectorizer constructed with a term vocabulary and without a
\* group vocabulary, and not fit since, transform and grps_list raise
\* "vocabulary hasn't been built" and nothing else.
C22_GroupVocabularyNotBuilt ==
    (/\ cfg.cls = "GroupVectorizer" /\ cfg.init = Ok
     /\ cfg.fixed_terms /\ ~cfg.fixed_grps /\ vocabulary_grps.is_none)
    => /\ GrpsList(vocabulary_terms, vocabulary_grps).status = ErrNotBuilt
       /\ call.op = "transform" => call.status = ErrNotBuilt

\* the terms of the documents whose label is in `known`, as one sequence
RECURSIVE KeptTerms(_, _, _)
KeptTerms(docs, grps, known) ==
    IF docs = <<>> \/ grps = <<>> THEN <<>>
    ELSE (IF Head(grps) \in known THEN Head(docs) ELSE <<>>)
         \o KeptTerms(Tail(docs), Tail(grps), known)

\* the ids of voc are the order of first appearance in stream
FirstAppearance(voc, stream) ==
    /\ DOMAIN voc = TermsOf(stream)
    /\ \A t \in DOMAIN voc :
         voc[t] = Cardinality({u \in TermsOf(stream) :
                                  FirstIndex(stream, u) < FirstIndex(stream, t)})

\* C23: when GroupVectorizer counts against a fixed group vocabulary, a
\* document whose label is not in it is skipped as a whole: it adds to no
\* count and to no row, and with an open term vocabulary its terms get no id;
\* with an open group vocabulary a new label gets the next row id when it is
\* first seen.
C23_UnknownGroupSkipped ==
    [][(/\ cfg.cls = "GroupVectorizer" /\ call.op = "none"
        /\ call'.op \in {"fit", "fit_transform", "transform"}
        /\ call'.status = Ok)
       => LET docs == call'.tokenized_docs
              grps == call'.grps
              fixed_grps == cfg.fixed_grps \/ call'.op = "transform"
              fixed_terms == cfg.fixed_terms \/ call'.op = "transform"
              known == IF fixed_grps THEN DOMAIN vocabulary_grps.map ELSE Groups
              vt == vocabulary_terms'.map
              vg == vocabulary_grps'.map
              m == call'.result
          IN  /\ fixed_grps => vocabulary_grps' = vocabulary_grps
              /\ fixed_terms => vocabulary_terms' = vocabulary_terms
              /\ ~fixed_terms => FirstAppearance(vt, KeptTerms(docs, grps, known))
              /\ ~fixed_grps => FirstAppearance(vg, grps)
              /\ call'.op # "fit" =>
                   /\ m.n_rows = Len0(vg)
                   /\ \A g \in DOMAIN vg : \A t \in DOMAIN vt :
                        Holds(m, vg[g], vt[t], GroupTotal(docs, grps, g, t))]_vars

\* C23 witness: fit_transform with a fixed group vocabulary and an open term
\* vocabulary has skipped a document of an unknown group, whose term is in no
\* other document and so is not in the vocabulary, and has counted another
C23_Witness ==
    /\ cfg.cls = "GroupVectorizer" /\ cfg.fixed_grps /\ ~cfg.fixed_terms
    /\ call.op = "fit_transform" /\ call.status = Ok
    /\ \E i, k \in 1..Len(call.tokenized_docs) :
         /\ call.grps[i] \notin DOMAIN vocabulary_grps.map
         /\ TermsOf(call.tokenized_docs[i]) \ DOMAIN vocabulary_terms.map # {}
         /\ call.grps[k] \in DOMAIN vocabulary_grps.map
         /\ call.tokenized_docs[k] # <<>>
         /\ TermsOf(call.tokenized_docs[k]) = DOMAIN vocabulary_terms.map
    /\ call.result.n_rows = 1

----------------------------------------------------------------------------
(* Properties of the inverse mappings *)

\* id_to is the inverse of voc
IsInverse(id_to, voc) ==
    /\ DOMAIN id_to = Range(voc)
    /\ \A t \in DOMAIN voc : id_to[voc[t]] = t

\* C24: whenever the instance has a vocabulary, id_to_term returns the exact
\* inverse of the current vocabulary_terms and id_to_grp that of the current
\* vocabulary_grps, whatever fits, filter passes and reads came before, a
\* refit to a different vocabulary of the same size included.
C24_InverseInSync ==
    /\ (call.op = "id_to_term" /\ ~vocabulary_terms.is_none)
       => /\ call.status = Ok
          /\ IsInverse(call.returned, vocabulary_terms.map)
          /\ id_to_term_ = call.returned
    /\ (call.op = "id_to_grp" /\ ~vocabulary_grps.is_none)
       => /\ call.status = Ok
          /\ IsInverse(call.returned, vocabulary_grps.map)
          /\ id_to_grp_ = call.returned

\* C24 witness: id_to_term is read when the cached dict is the inverse of an
\* earlier vocabulary of the same size as the current one, but not of the
\* current one
C24_Witness ==
    /\ call.op = "id_to_term" /\ call.status = Ok
    /\ Len0(call.before) = Len0(vocabulary_terms.map)
    /\ Len0(call.before) > 0
    /\ ~IsInverse(call.before, vocabulary_terms.map)
    /\ IsInverse(call.returned, vocabulary_terms.map)

----------------------------------------------------------------------------
(* Properties of fit_transform against transform *)

\* C25: on a Vectorizer without a given vocabulary, with weighting 'tf' or
\* 'binary' and any filter arguments, when fit_transform(D) has returned a
\* matrix, transform(D) on the same instance returns an equal matrix.
C25_TransformRepeatsFitTransform ==
    (/\ cfg.cls = "Vectorizer" /\ ~cfg.fixed_terms
     /\ cfg.weighting \in {"tf", "binary"}
     /\ call.op = "fit_transform" /\ call.status = Ok)
    => LET o == TransformOutcome(cfg, vocabulary_terms, call.tokenized_docs)
       IN  /\ o.status = Ok
           /\ o.result = call.result

====
